---- MODULE Spec2Model ----
(***************************************************************************)
(* Motorbike booking API (backend/server.js): the Booking collection and   *)
(* the GET / POST / PATCH / DELETE handlers of /api/bookings.              *)
(*                                                                         *)
(* Each handler is one atomic action in Spec (requests served one after    *)
(* the other); SpecRace splits POST at its awaits.                         *)
(* The MongoDB collection is assumed reachable, so the                     *)
(* catch -> 500 branches are not taken, and :id is a well-formed ObjectId. *)
(***************************************************************************)
EXTENDS Integers, FiniteSets, Sequences, TLC

\* ---------------------------------------------------------------- bounds
MaxId == 2        \* number of documents ever created (ObjectIds 1..MaxId)
MaxTime == 3      \* instants are 0..MaxTime
MaxClock == 1     \* Date.now() ranges over 0..MaxClock (SpecClock)
MaxConn == 2      \* POST requests open at once (SpecRace)

VARIABLES store, nextId, now, req, res, list, posts

vars == <<store, nextId, now, req, res, list, posts>>

\* ------------------------------------------------------- JSON body values
\* A JSON value of a request body: absent (undefined) or a string.  A string
\* is either plain text s, or the ISO text of the instant t (s = "date").
Undefined == [k |-> "undefined", s |-> "", t |-> 0]
Text(x) == [k |-> "string", s |-> x, t |-> 0]
DateStr(i) == [k |-> "string", s |-> "date", t |-> i]

Time == 0..MaxTime
Ids == 1..MaxId
Conns == 1..MaxConn

\* request inputs: the well-formed values and one faulty value of each kind
\* (an empty name, a missing bookingTime, a returnTime that is no date)
NameInputs == {Text(""), Text("ann")}
PurposeInputs == {Text("trip")}
BookingTimeInputs == {Undefined} \cup {DateStr(i) : i \in Time}
ReturnTimeInputs == {Text("soon")} \cup {DateStr(i) : i \in Time}
StatusInputs == {Undefined, Text("archived"), Text("pending"), Text("approved"), Text("rejected")}

\* bodies of POST /api/bookings; status is a field the handler does not read
PostBodies ==
    [name : NameInputs, purpose : PurposeInputs, bookingTime : BookingTimeInputs,
     returnTime : ReturnTimeInputs, status : {Undefined, Text("approved")}]

\* JavaScript truthiness of a body value (the operand of `!`)
Truthy(v) == v.k = "string" /\ v.s # ""

\* new Date(v): a Date whose time value is NaN (valid = FALSE) or an instant
NewDate(v) ==
    IF v.k = "string" /\ v.s = "date"
    THEN [valid |-> TRUE, t |-> v.t]
    ELSE [valid |-> FALSE, t |-> 0]

\* ------------------------------------------------------ response messages
MsgRequired == "All fields are required: name, purpose, bookingTime, returnTime"
MsgInvalidDate == "Invalid date format for bookingTime or returnTime"
MsgOrder == "Return time must be after booking time"
MsgConflict == "Time conflict with existing booking"
MsgInvalidStatus == "Invalid status"
MsgNotFound == "Booking not found"
MsgDeleted == "Booking deleted successfully"

\* ------------------------------------------------------------- POST parts
\* if (!name || !purpose || !bookingTime || !returnTime)
RequiredMissing(body) ==
    \/ ~Truthy(body.name)
    \/ ~Truthy(body.purpose)
    \/ ~Truthy(body.bookingTime)
    \/ ~Truthy(body.returnTime)

\* if (isNaN(bookingDateTime.getTime()) || isNaN(returnDateTime.getTime()))
InvalidDate(bookingDateTime, returnDateTime) ==
    ~bookingDateTime.valid \/ ~returnDateTime.valid

OrderViolationStrict(bookingDateTime, returnDateTime) ==
    bookingDateTime.t > returnDateTime.t

\* if (bookingDateTime >= returnDateTime)
OrderViolation(bookingDateTime, returnDateTime) ==
    bookingDateTime.t >= returnDateTime.t

ConflictQueryOpen(S, bookingDateTime, returnDateTime) ==
    {d \in S : /\ d.status = "approved"
               /\ d.bookingTime < returnDateTime.t
               /\ d.returnTime > bookingDateTime.t}

ConflictQueryAnyStatus(S, bookingDateTime, returnDateTime) ==
    {d \in S : /\ d.bookingTime <= returnDateTime.t
               /\ d.returnTime >= bookingDateTime.t}

\* Booking.findOne({status:'approved', $or:[{bookingTime:{$lte:returnDateTime},
\*                                           returnTime:{$gte:bookingDateTime}}]})
\* the documents the query matches (findOne returns one of them, or null)
ConflictQuery(S, bookingDateTime, returnDateTime) ==
    {d \in S : /\ d.status = "approved"
               /\ d.bookingTime <= returnDateTime.t
               /\ d.returnTime >= bookingDateTime.t}

NewBookingFromBody(id, body, bookingDateTime, returnDateTime, createdAt) ==
    [_id |-> id, name |-> body.name.s, purpose |-> body.purpose.s,
     bookingTime |-> bookingDateTime.t, returnTime |-> returnDateTime.t,
     status |-> IF body.status.k = "string" THEN body.status.s ELSE "pending",
     createdAt |-> createdAt]

\* new Booking({name, purpose, bookingTime: bookingDateTime, returnTime:
\* returnDateTime}) with the schema defaults status 'pending', createdAt Date.now
NewBooking(id, body, bookingDateTime, returnDateTime, createdAt) ==
    [_id |-> id, name |-> body.name.s, purpose |-> body.purpose.s,
     bookingTime |-> bookingDateTime.t, returnTime |-> returnDateTime.t,
     status |-> "pending", createdAt |-> createdAt]

PostMessageConflictFirst(S, body) ==
    LET bookingDateTime == NewDate(body.bookingTime)
        returnDateTime == NewDate(body.returnTime)
    IN  IF RequiredMissing(body) THEN MsgRequired
        ELSE IF InvalidDate(bookingDateTime, returnDateTime) THEN MsgInvalidDate
        ELSE IF ConflictQuery(S, bookingDateTime, returnDateTime) # {} THEN MsgConflict
        ELSE IF OrderViolation(bookingDateTime, returnDateTime) THEN MsgOrder
        ELSE ""

\* the validation chain of the POST handler on collection S: the message of
\* the first check that returns, "" when none does
PostMessage(S, body) ==
    LET bookingDateTime == NewDate(body.bookingTime)
        returnDateTime == NewDate(body.returnTime)
    IN  IF RequiredMissing(body) THEN MsgRequired
        ELSE IF InvalidDate(bookingDateTime, returnDateTime) THEN MsgInvalidDate
        ELSE IF OrderViolation(bookingDateTime, returnDateTime) THEN MsgOrder
        ELSE IF ConflictQuery(S, bookingDateTime, returnDateTime) # {} THEN MsgConflict
        ELSE ""

\* the POST handler on collection S, the new document getting _id id and
\* createdAt createdAt: status code, message and the collection afterwards
PostResult(S, body, id, createdAt) ==
    LET message == PostMessage(S, body)
    IN  IF message # ""
        THEN [code |-> 400, message |-> message, store |-> S]
        ELSE [code |-> 201, message |-> "",
              store |-> S \cup {NewBooking(id, body, NewDate(body.bookingTime),
                                           NewDate(body.returnTime), createdAt)}]

\* ------------------------------------------------------------ PATCH parts
\* ['pending', 'approved', 'rejected']
ValidStatuses == {"pending", "approved", "rejected"}

ValidStatusLoose(status) == status.k = "string" /\ status.s # ""

\* ['pending', 'approved', 'rejected'].includes(status)
ValidStatus(status) == status.k = "string" /\ status.s \in ValidStatuses

\* the document with that _id, as a set of at most one (null = {})
FindById(S, id) == {d \in S : d._id = id}

UpdateOnlyPending(S, id, status) ==
    {IF d._id = id /\ d.status = "pending" THEN [d EXCEPT !.status = status] ELSE d : d \in S}

UpdateTouchesCreatedAt(S, id, status) ==
    {IF d._id = id THEN [d EXCEPT !.status = status, !.createdAt = now] ELSE d : d \in S}

\* the collection after Booking.findByIdAndUpdate(id, {status}, {new: true})
FindByIdAndUpdate(S, id, status) ==
    {IF d._id = id THEN [d EXCEPT !.status = status] ELSE d : d \in S}

PatchResultNoRepeat(S, id, status) ==
    IF ~ValidStatus(status) \/ (\E d \in FindById(S, id) : d.status = status.s)
    THEN [code |-> 400, message |-> MsgInvalidStatus, store |-> S]
    ELSE IF FindById(S, id) = {}
    THEN [code |-> 404, message |-> MsgNotFound, store |-> FindByIdAndUpdate(S, id, status.s)]
    ELSE [code |-> 200, message |-> "", store |-> FindByIdAndUpdate(S, id, status.s)]

\* the PATCH handler on collection S
PatchResult(S, id, status) ==
    IF ~ValidStatus(status)
    THEN [code |-> 400, message |-> MsgInvalidStatus, store |-> S]
    ELSE IF FindById(S, id) = {}
    THEN [code |-> 404, message |-> MsgNotFound, store |-> FindByIdAndUpdate(S, id, status.s)]
    ELSE [code |-> 200, message |-> "", store |-> FindByIdAndUpdate(S, id, status.s)]

\* ----------------------------------------------------------- DELETE parts
\* the collection after Booking.findByIdAndDelete(id)
FindByIdAndDelete(S, id) == {d \in S : d._id # id}

DeleteResultUnchecked(S, id) ==
    [code |-> 200, message |-> MsgDeleted, store |-> FindByIdAndDelete(S, id)]

\* the DELETE handler on collection S
DeleteResult(S, id) ==
    IF FindById(S, id) = {}
    THEN [code |-> 404, message |-> MsgNotFound, store |-> FindByIdAndDelete(S, id)]
    ELSE [code |-> 200, message |-> MsgDeleted, store |-> FindByIdAndDelete(S, id)]

\* -------------------------------------------------------------- GET parts
\* the arrays that hold each document of S once (the result of a find,
\* before .sort)
Arrays(S) ==
    {s \in [1..Cardinality(S) -> S] :
        \A i, j \in 1..Cardinality(S) : i < j => s[i] # s[j]}

CreatedAtAsc(d, e) == d.createdAt <= e.createdAt

\* .sort({ createdAt: -1 })
CreatedAtDesc(d, e) == d.createdAt >= e.createdAt

\* .sort({ bookingTime: 1 })
BookingTimeAsc(d, e) == d.bookingTime <= e.bookingTime

\* Booking.find({ status: 'approved' })
FindApproved(S) == {d \in S : d.status = "approved"}

\* Booking.find().sort({ createdAt: -1 }): documents with equal keys come
\* in any order
SortByCreatedAt(S) ==
    {s \in Arrays(S) : \A i, j \in 1..Len(s) : i < j => CreatedAtDesc(s[i], s[j])}

\* Booking.find({ status: 'approved' }).sort({ bookingTime: 1 })
SortByBookingTime(S) ==
    {s \in Arrays(S) : \A i, j \in 1..Len(s) : i < j => BookingTimeAsc(s[i], s[j])}

\* ------------------------------------------------------------------ state
\* store   the bookings collection, a set of documents
\* nextId  the next ObjectId the driver generates
\* now     the value of Date.now()
\* req     method and :id of the request being answered
\* res     status code and message of its response, until it is sent; ref is
\*         the _id of the document the response shows (created, updated, or
\*         the conflicting one)
\* list    the array a GET answers with
\* posts   per connection, the POST handler waiting between its conflict
\*         query and its save, with its local variables
NoRequest == [op |-> "none", id |-> 0]
NoResponse == [code |-> 0, message |-> "", ref |-> 0]
NoCall == [pc |-> "idle", name |-> Undefined, purpose |-> Undefined,
           bookingDateTime |-> NewDate(Undefined), returnDateTime |-> NewDate(Undefined)]

Init ==
    /\ store = {}
    /\ nextId = 1
    /\ now = 0
    /\ req = NoRequest
    /\ res = NoResponse
    /\ list = <<>>
    /\ posts = [c \in Conns |-> NoCall]

\* no exchange is open: the server takes the next request
Idle == res = NoResponse

\* app.post('/api/bookings')
Post(body) ==
    LET r == PostResult(store, body, nextId, now)
    IN  /\ Idle
        /\ r.code = 201 => nextId <= MaxId
        /\ req' = [op |-> "POST", id |-> 0]
        /\ store' = r.store
        /\ nextId' = IF r.code = 201 THEN nextId + 1 ELSE nextId
        /\ IF r.message = MsgConflict
           THEN \E c \in ConflictQuery(store, NewDate(body.bookingTime),
                                       NewDate(body.returnTime)) :
                    res' = [code |-> r.code, message |-> r.message, ref |-> c._id]
           ELSE res' = [code |-> r.code, message |-> r.message,
                        ref |-> IF r.code = 201 THEN nextId ELSE 0]
        /\ UNCHANGED <<now, list, posts>>

\* app.patch('/api/bookings/:id')
Patch(id, status) ==
    LET r == PatchResult(store, id, status)
    IN  /\ Idle
        /\ req' = [op |-> "PATCH", id |-> id]
        /\ store' = r.store
        /\ res' = [code |-> r.code, message |-> r.message,
                   ref |-> IF r.code = 200 THEN id ELSE 0]
        /\ UNCHANGED <<nextId, now, list, posts>>

\* app.delete('/api/bookings/:id')
Delete(id) ==
    LET r == DeleteResult(store, id)
    IN  /\ Idle
        /\ req' = [op |-> "DELETE", id |-> id]
        /\ store' = r.store
        /\ res' = [code |-> r.code, message |-> r.message, ref |-> 0]
        /\ UNCHANGED <<nextId, now, list, posts>>

\* app.get('/api/bookings')
GetBookings ==
    /\ Idle
    /\ req' = [op |-> "GET", id |-> 0]
    /\ res' = [code |-> 200, message |-> "", ref |-> 0]
    /\ list' \in SortByCreatedAt(store)
    /\ UNCHANGED <<store, nextId, now, posts>>

\* app.get('/api/bookings/approved')
GetApproved ==
    /\ Idle
    /\ req' = [op |-> "GET approved", id |-> 0]
    /\ res' = [code |-> 200, message |-> "", ref |-> 0]
    /\ list' \in SortByBookingTime(FindApproved(store))
    /\ UNCHANGED <<store, nextId, now, posts>>

\* app.post('/api/bookings') up to the end of `await Booking.findOne(...)`:
\* the checks and the conflict query; a request that passes them waits for
\* its save
PostQuery(c, body) ==
    LET message == PostMessage(store, body)
    IN  /\ Idle
        /\ posts[c].pc = "idle"
        /\ IF message = ""
           THEN /\ posts' = [posts EXCEPT ![c] =
                        [pc |-> "save", name |-> body.name, purpose |-> body.purpose,
                         bookingDateTime |-> NewDate(body.bookingTime),
                         returnDateTime |-> NewDate(body.returnTime)]]
                /\ UNCHANGED <<req, res>>
           ELSE /\ req' = [op |-> "POST", id |-> 0]
                /\ IF message = MsgConflict
                   THEN \E d \in ConflictQuery(store, NewDate(body.bookingTime),
                                               NewDate(body.returnTime)) :
                            res' = [code |-> 400, message |-> message, ref |-> d._id]
                   ELSE res' = [code |-> 400, message |-> message, ref |-> 0]
                /\ UNCHANGED posts
        /\ UNCHANGED <<store, nextId, now, list>>

\* app.post('/api/bookings') from `new Booking(...)` on: the save and the 201
PostSave(c) ==
    /\ Idle
    /\ posts[c].pc = "save"
    /\ nextId <= MaxId
    /\ store' = store \cup {NewBooking(nextId, posts[c], posts[c].bookingDateTime,
                                       posts[c].returnDateTime, now)}
    /\ nextId' = nextId + 1
    /\ req' = [op |-> "POST", id |-> 0]
    /\ res' = [code |-> 201, message |-> "", ref |-> nextId]
    /\ posts' = [posts EXCEPT ![c] = NoCall]
    /\ UNCHANGED <<now, list>>

\* res.json(...): the response is sent and the exchange ends
Send ==
    /\ ~Idle
    /\ req' = NoRequest
    /\ res' = NoResponse
    /\ list' = <<>>
    /\ UNCHANGED <<store, nextId, now, posts>>

\* the wall clock read by Date.now advances between requests
Tick ==
    /\ Idle
    /\ now < MaxClock
    /\ now' = now + 1
    /\ UNCHANGED <<store, nextId, req, res, list, posts>>

\* requests served one after the other
Next ==
    \/ \E body \in PostBodies : Post(body)
    \/ \E id \in Ids, status \in StatusInputs : Patch(id, status)
    \/ \E id \in Ids : Delete(id)
    \/ Send

\* Spec: the handlers with the clock standing still (no handler reads
\* createdAt, which Spec leaves at one instant)
Spec == Init /\ [][Next]_vars

\* SpecClock: Spec with the clock advancing, so that createdAt varies, and
\* with the two reading handlers
NextClock ==
    \/ Next
    \/ Tick
    \/ GetBookings
    \/ GetApproved

SpecClock == Init /\ [][NextClock]_vars

\* SpecRace: POST in two steps, the conflict query and the save, between
\* which the steps of other requests run
NextRace ==
    \/ \E c \in Conns, body \in PostBodies : PostQuery(c, body)
    \/ \E c \in Conns : PostSave(c)
    \/ \E id \in Ids, status \in StatusInputs : Patch(id, status)
    \/ \E id \in Ids : Delete(id)
    \/ Send

SpecRace == Init /\ [][NextRace]_vars

\* ============================================================= properties
\* helpers of the statements below
FieldsPresent(body) ==
    \A f \in {"name", "purpose", "bookingTime", "returnTime"} :
        body[f].k = "string" /\ body[f].s # ""

DatesParse(body) == NewDate(body.bookingTime).valid /\ NewDate(body.returnTime).valid

From(body) == NewDate(body.bookingTime).t
To(body) == NewDate(body.returnTime).t

\* closed-interval overlap of a stored booking with the interval [c, d]
Overlaps(a, c, d) == a.bookingTime <= d /\ a.returnTime >= c

\* the approved stored bookings that overlap the candidate of body
Blockers(body) ==
    {a \in store : a.status = "approved" /\ Overlaps(a, From(body), To(body))}

\* POST bodies with four fields present, parsable dates and bookingTime < returnTime
OrderedBodies ==
    {body \in PostBodies : FieldsPresent(body) /\ DatesParse(body) /\ From(body) < To(body)}

\* POST bodies with parsable dates and bookingTime >= returnTime
UnorderedBodies ==
    {body \in PostBodies : DatesParse(body) /\ From(body) >= To(body)}

\* what POST of body answers in the current state
PostNow(body) == PostResult(store, body, nextId, now)

\* C1: no two distinct stored bookings that are both approved overlap
\* (closed intervals), in every reachable state.
C1_NoDoubleBooking ==
    \A a, b \in store :
        (a # b /\ a.status = "approved" /\ b.status = "approved")
            => ~(a.bookingTime <= b.returnTime /\ a.returnTime >= b.bookingTime)

\* C2: whenever the server takes a request, a POST with four fields present,
\* parsable dates and bookingTime < returnTime is rejected with the conflict
\* error (400, store unchanged) iff some stored approved booking [a, b] has
\* a <= d and b >= c; otherwise it is answered 201 and the booking is stored.
C2_PostDecision ==
    Idle => \A body \in OrderedBodies :
        LET r == PostNow(body)
        IN  IF Blockers(body) # {}
            THEN r.code = 400 /\ r.message = MsgConflict /\ r.store = store
            ELSE /\ r.code = 201
                 /\ \E n \in r.store \ store :
                        /\ n.bookingTime = From(body) /\ n.returnTime = To(body)
                        /\ n.name = body.name.s /\ n.purpose = body.purpose.s

\* a POST was rejected for a conflict with a stored approved booking
C2_Witness ==
    /\ req.op = "POST" /\ res.code = 400 /\ res.message = MsgConflict
    /\ \E a \in store : a._id = res.ref /\ a.status = "approved"

C4_OrderErrorOriginal ==
    [][\A body \in UnorderedBodies :
        Post(body) => res'.code = 400 /\ res'.message = MsgOrder /\ store' = store]_vars

\* C4 amended: a POST with four fields present, parsable dates and
\* bookingTime >= returnTime is rejected with the order error, whatever
\* bookings exist (an overlapping approved one included), store unchanged.
C4_OrderError ==
    Idle => \A body \in UnorderedBodies :
        FieldsPresent(body)
            => LET r == PostNow(body)
               IN  r.code = 400 /\ r.message = MsgOrder /\ r.store = store

\* the order error was answered while an approved booking covers every instant
C4_Witness ==
    /\ req.op = "POST" /\ res.code = 400 /\ res.message = MsgOrder
    /\ \E a \in store : a.status = "approved" /\ a.bookingTime = 0 /\ a.returnTime = MaxTime

\* C5: a PATCH with a valid status on a stored booking answers 200 and
\* leaves that booking with the requested status, whatever its current
\* status and whatever other approved bookings exist.
C5_PatchAlwaysApplies ==
    Idle => \A d \in store : \A status \in {"pending", "approved", "rejected"} :
        LET r == PatchResult(store, d._id, Text(status))
        IN  /\ r.code = 200
            /\ [d EXCEPT !.status = status] \in r.store
            /\ \A e \in r.store : e._id = d._id => e.status = status

\* a PATCH to approved succeeded on a booking that overlaps another approved one
C5_Witness ==
    /\ req.op = "PATCH" /\ res.code = 200
    /\ \E d \in store, e \in store :
          /\ d._id = req.id /\ e._id # d._id
          /\ d.status = "approved" /\ e.status = "approved"
          /\ Overlaps(e, d.bookingTime, d.returnTime)

\* C6: a PATCH whose status is not pending, approved or rejected (missing
\* included) answers 400 Invalid status and changes nothing, whether or not
\* the id is stored; and every stored status is one of the three.
C6_InvalidStatusRejected ==
    /\ Idle => \A id \in Ids : \A status \in StatusInputs :
          (status.k # "string" \/ status.s \notin {"pending", "approved", "rejected"})
              => LET r == PatchResult(store, id, status)
                 IN  r.code = 400 /\ r.message = MsgInvalidStatus /\ r.store = store
    /\ \A d \in store : d.status \in {"pending", "approved", "rejected"}

\* a PATCH naming a stored booking was rejected for its status
C6_Witness ==
    /\ req.op = "PATCH" /\ res.code = 400 /\ res.message = MsgInvalidStatus
    /\ \E d \in store : d._id = req.id

\* C7: PATCH(id, s) with a valid s on a stored booking, applied twice in a
\* row, leaves the store as one application does, and both answer 200.
C7_PatchIdempotent ==
    Idle => \A d \in store : \A status \in {"pending", "approved", "rejected"} :
        LET once == PatchResult(store, d._id, Text(status))
            twice == PatchResult(once.store, d._id, Text(status))
        IN  once.code = 200 /\ twice.code = 200 /\ twice.store = once.store

\* a PATCH to rejected succeeded, the state a repeated PATCH starts from
C7_Witness ==
    /\ req.op = "PATCH" /\ res.code = 200
    /\ \E d \in store : d._id = res.ref /\ d.status = "rejected"

\* C8: a DELETE, or a PATCH with a valid status, whose id is not stored
\* answers 404 and leaves the store unchanged; a DELETE right after a
\* successful DELETE of the same id answers 404.
C8_NotFound ==
    Idle => \A id \in Ids :
        /\ (\A d \in store : d._id # id)
              => /\ DeleteResult(store, id).code = 404
                 /\ DeleteResult(store, id).store = store
                 /\ \A status \in {"pending", "approved", "rejected"} :
                        /\ PatchResult(store, id, Text(status)).code = 404
                        /\ PatchResult(store, id, Text(status)).store = store
        /\ (\E d \in store : d._id = id)
              => LET once == DeleteResult(store, id)
                     twice == DeleteResult(once.store, id)
                 IN  once.code = 200 /\ twice.code = 404 /\ twice.store = once.store

\* a DELETE of an id that was created and is no longer stored answered 404
C8_Witness ==
    /\ req.op = "DELETE" /\ res.code = 404
    /\ req.id < nextId /\ \A d \in store : d._id # req.id

\* C9: an accepted POST adds exactly one booking, with an id no stored or
\* earlier booking has and status pending, whatever the body holds, and
\* changes no stored booking; and a stored booking's status changes only in
\* a successful PATCH on that booking.
C9_CreatedPending ==
    /\ [](\A d \in store : d._id < nextId)
    /\ [](Idle => \A body \in PostBodies :
            LET r == PostNow(body)
            IN  r.code = 201
                  => /\ store \subseteq r.store
                     /\ \E n \in r.store :
                            /\ r.store \ store = {n}
                            /\ n.status = "pending"
                            /\ n._id >= nextId
                            /\ \A d \in store : d._id # n._id)
    /\ [][/\ nextId' >= nextId
          /\ \A d \in store : \A e \in store' :
                (d._id = e._id /\ d.status # e.status)
                    => req'.op = "PATCH" /\ req'.id = d._id /\ res'.code = 200]_vars

\* a POST was accepted and stored as pending beside a booking that a PATCH
\* had moved away from pending
C9_Witness ==
    /\ req.op = "POST" /\ res.code = 201
    /\ \E n \in store : n._id = res.ref /\ n.status = "pending"
    /\ \E d \in store : d._id # res.ref /\ d.status # "pending"

\* C10: every stored booking has bookingTime < returnTime, in every
\* reachable state.
C10_StoredOrdered ==
    \A d \in store : d.bookingTime < d.returnTime

\* bookings were stored, patched and one deleted
C10_Witness ==
    /\ nextId > MaxId
    /\ req.op = "DELETE" /\ res.code = 200
    /\ \E d \in store : d.status = "approved"

\* the documents of an array
Elements(s) == {s[i] : i \in 1..Len(s)}

\* C11: GET /api/bookings/approved answers with exactly the stored bookings
\* whose status is approved, each once, by bookingTime ascending; GET
\* /api/bookings answers with every stored booking, each once, by createdAt
\* descending; and no GET changes the store.
C11_Views ==
    /\ [](req.op = "GET approved"
            => /\ res.code = 200
               /\ Elements(list) = {d \in store : d.status = "approved"}
               /\ Len(list) = Cardinality(Elements(list))
               /\ \A i \in 1..Len(list) - 1 : list[i].bookingTime <= list[i + 1].bookingTime)
    /\ [](req.op = "GET"
            => /\ res.code = 200
               /\ Elements(list) = store
               /\ Len(list) = Cardinality(store)
               /\ \A i \in 1..Len(list) - 1 : list[i].createdAt >= list[i + 1].createdAt)
    /\ [][req'.op \in {"GET", "GET approved"} => store' = store]_vars

\* GET /api/bookings answered with two bookings created at different instants
\* of which only the first is approved
C11_Witness ==
    /\ req.op = "GET" /\ Len(list) = 2
    /\ list[1].createdAt > list[2].createdAt
    /\ list[1].status = "approved" /\ list[2].status # "approved"

\* C12: a successful PATCH changes only the status of the booking it names
\* (its _id, name, purpose, bookingTime, returnTime and createdAt, and every
\* other booking, stay as they were); a successful DELETE removes exactly
\* the booking it names and changes no other.
C12_Frame ==
    [][/\ (req'.op = "PATCH" /\ res'.code = 200)
            => \E d \in store : \E e \in store' :
                  /\ d._id = req'.id /\ e._id = d._id
                  /\ e.name = d.name /\ e.purpose = d.purpose
                  /\ e.bookingTime = d.bookingTime /\ e.returnTime = d.returnTime
                  /\ e.createdAt = d.createdAt
                  /\ store' \ {e} = store \ {d}
       /\ (req'.op = "DELETE" /\ res'.code = 200)
            => \E d \in store :
                  /\ d._id = req'.id
                  /\ store' = store \ {d}
                  /\ Cardinality(store') = Cardinality(store) - 1]_vars

\* a PATCH changed the status of a booking created at an earlier instant,
\* beside another stored booking
C12_Witness ==
    /\ req.op = "PATCH" /\ res.code = 200
    /\ \E d \in store, e \in store :
          /\ d._id = req.id /\ e._id # d._id
          /\ d.createdAt < now /\ d.status = "rejected"

\* C13: with POST in two steps, a booking a POST has just saved overlaps no
\* booking that is approved at the moment of the save.
C13_SavedOverlapsNoApproved ==
    (req.op = "POST" /\ res.code = 201)
        => \A n \in store : \A a \in store :
              (n._id = res.ref /\ a.status = "approved")
                  => ~(a.bookingTime <= n.returnTime /\ a.returnTime >= n.bookingTime)

====
